---- MODULE Spec2Model ----
(***************************************************************************)
(* Model of the three demonstration scripts vanila_example.py,            *)
(* langchain_example.py and deepagent_example.py.                         *)
(*                                                                         *)
(* Spec     : one execution of a script, from the module-level            *)
(*            configuration to the end of the __main__ block.             *)
(* SpecFmt  : one call of a script's formatter (print_response or         *)
(*            print_result) on a response drawn from a bounded set.       *)
(*                                                                         *)
(* Python values are tagged records: [t |-> "none"], [t |-> "int", v],    *)
(* [t |-> "str", v], [t |-> "list", v], [t |-> "dict", v] and             *)
(* [t |-> "obj", v]; the fields of a dict and the attributes of an object *)
(* are the DOMAIN of the record v.  Environment strings are sequences of  *)
(* characters, printed texts are strings.                                 *)
(***************************************************************************)
EXTENDS Integers, Sequences, FiniteSets, TLC

VARIABLES script, AZURE_OPENAI_ENDPOINT, AZURE_OPENAI_API_KEY, pc,
          exit_status, stderr, client, requests, ex, trace, stdout,
          response, out, raised

runvars == <<script, AZURE_OPENAI_ENDPOINT, AZURE_OPENAI_API_KEY, pc,
             exit_status, stderr, client, requests, ex, trace, stdout>>
fmtvars == <<response, out, raised>>
vars == <<runvars, fmtvars>>

Scripts == {"vanila", "langchain", "deepagent"}

(***************************************************************************)
(* Python values                                                           *)
(***************************************************************************)
None == [t |-> "none"]
PyStr(s) == [t |-> "str", v |-> s]
PyInt(n) == [t |-> "int", v |-> n]
PyList(s) == [t |-> "list", v |-> s]
PyDict(d) == [t |-> "dict", v |-> d]
PyObj(d) == [t |-> "obj", v |-> d]
\* the record with no field: an empty dict, an object without attributes
NoFields == [k \in {} |-> None]

\* bool(x): None, 0, "", [] and {} are falsy
Truthy(x) ==
    CASE x.t = "none" -> FALSE
      [] x.t = "int" -> x.v # 0
      [] x.t = "str" -> Len(x.v) > 0
      [] x.t = "list" -> Len(x.v) > 0
      [] x.t = "dict" -> DOMAIN x.v # {}
      [] OTHER -> TRUE

(***************************************************************************)
(* Configuration resolver: endpoint normalisation                          *)
(***************************************************************************)
\* "/api/projects/"
Marker == <<"/", "a", "p", "i", "/", "p", "r", "o", "j", "e", "c", "t", "s", "/">>
\* "/openai/v1/"
Suffix == <<"/", "o", "p", "e", "n", "a", "i", "/", "v", "1", "/">>

\* m occurs in s at position i
OccursAt(s, m, i) == i >= 1 /\ i + Len(m) - 1 <= Len(s) /\ SubSeq(s, i, i + Len(m) - 1) = m

\* str.find scanning from position i: the lowest position >= i where m occurs, 0 if none
RECURSIVE FindFrom(_, _, _)
FindFrom(s, m, i) ==
    IF i + Len(m) - 1 > Len(s) THEN 0
    ELSE IF SubSeq(s, i, i + Len(m) - 1) = m THEN i
    ELSE FindFrom(s, m, i + 1)

\* `m in s`
Contains(s, m) == FindFrom(s, m, 1) # 0

\* s.split(m)[0]: the part of s before the first occurrence of m, s itself if none
SplitFirst(s, m) ==
    LET i == FindFrom(s, m, 1) IN IF i = 0 THEN s ELSE SubSeq(s, 1, i - 1)

\* a faulty variant: only one trailing "/" is removed
RStripOnce(s) ==
    IF Len(s) > 0 /\ s[Len(s)] = "/" THEN SubSeq(s, 1, Len(s) - 1) ELSE s

\* s.rstrip('/'): every trailing "/" removed
RECURSIVE RStrip(_)
RStrip(s) ==
    IF Len(s) > 0 /\ s[Len(s)] = "/" THEN RStrip(SubSeq(s, 1, Len(s) - 1)) ELSE s

resource_endpoint(e) ==
    IF Contains(e, Marker) THEN SplitFirst(e, Marker) ELSE e

vanila_base_url(e) == RStrip(resource_endpoint(e)) \o Suffix
langchain_base_url(e) == RStrip(resource_endpoint(e)) \o Suffix
deepagent_base_url(e) == RStrip(resource_endpoint(e)) \o Suffix

base_url(s, e) ==
    CASE s = "vanila" -> vanila_base_url(e)
      [] s = "langchain" -> langchain_base_url(e)
      [] OTHER -> deepagent_base_url(e)

(***************************************************************************)
(* Bounded environments                                                    *)
(***************************************************************************)
MaxFill == 2

RECURSIVE Fillers(_)
Fillers(n) ==
    IF n = 0 THEN {<<>>}
    ELSE LET F == Fillers(n - 1) IN F \cup {<<c>> \o f : c \in {"/", "r"}, f \in {g \in F : Len(g) = n - 1}}

\* "https://r.services.ai.azure.com/api/projects/p1"
ExampleEndpoint ==
    <<"h", "t", "t", "p", "s", ":", "/", "/", "r", ".", "s", "e", "r", "v", "i", "c", "e", "s",
      ".", "a", "i", ".", "a", "z", "u", "r", "e", ".", "c", "o", "m">> \o Marker \o <<"p", "1">>
\* "https://r.services.ai.azure.com/openai/v1/"
ExampleBaseUrl ==
    <<"h", "t", "t", "p", "s", ":", "/", "/", "r", ".", "s", "e", "r", "v", "i", "c", "e", "s",
      ".", "a", "i", ".", "a", "z", "u", "r", "e", ".", "c", "o", "m">> \o Suffix

\* "/api/projects": the marker without its closing slash
MarkerOpen == SubSeq(Marker, 1, Len(Marker) - 1)

Endpoints ==
    {a \o m1 \o b \o m2 \o c :
        a \in Fillers(MaxFill), m1 \in {<<>>, Marker, MarkerOpen},
        b \in {<<>>, <<"p">>}, m2 \in {<<>>, Marker}, c \in Fillers(MaxFill)}
    \cup {ExampleEndpoint}

EnvEndpoints == {None} \cup {PyStr(e) : e \in Endpoints}
EnvKeys == {None, PyStr(<<>>), PyStr(<<"k">>)}

(***************************************************************************)
(* The __main__ block of each script                                       *)
(***************************************************************************)
\* the functions each module defines with `def`
Defined(s) ==
    CASE s = "vanila" ->
            {"print_response", "example_basic_reasoning", "example_coding_reasoning",
             "example_raw_response"}
      [] s = "langchain" ->
            {"print_response", "example_basic_reasoning", "example_coding_reasoning",
             "example_simple_question"}
      [] OTHER ->
            {"calculate", "count_characters", "print_result", "example_math_with_tools"}

\* the calls of the __main__ block, in program order
MainCalls(s) ==
    CASE s = "vanila" ->
            <<"example_basic_reasoning", "example_coding_reasoning", "example_raw_response">>
      [] s = "langchain" ->
            <<"example_basic_reasoning", "example_coding_reasoning", "example_simple_question">>
      [] OTHER ->
            <<"example_math_with_tools", "example_character_counting", "example_pure_reasoning">>

\* what an example does with the response: the formatter, or a dump of the raw JSON
Presents(name) ==
    CASE name = "example_raw_response" -> <<"dump">>
      [] name = "example_simple_question" -> <<"format", "dump">>
      [] OTHER -> <<"format">>

Banner(s) ==
    CASE s = "vanila" -> "Azure AI Foundry - GPT-5.2-chat Reasoning Examples"
      [] s = "langchain" -> "Azure AI Foundry - GPT-5.2-chat Reasoning Examples (LangChain)"
      [] OTHER -> "Azure AI Foundry - GPT-5.2-chat Reasoning Examples (Deep Agent)"

ConfigMessage == "Set AZURE_OPENAI_ENDPOINT and AZURE_OPENAI_API_KEY in your .env file."

\* a faulty variant: the check forgets the key
ConfigMissingEndpoint == ~Truthy(AZURE_OPENAI_ENDPOINT)

\* `if not AZURE_OPENAI_ENDPOINT or not AZURE_OPENAI_API_KEY`
ConfigMissing == ~Truthy(AZURE_OPENAI_ENDPOINT) \/ ~Truthy(AZURE_OPENAI_API_KEY)

(***************************************************************************)
(* Response formatters                                                     *)
(*                                                                         *)
(* A formatter run is a record [out, raised]: the lines printed so far and *)
(* the exception that ended the call ("" while none was raised).  A print  *)
(* of a text with "\n" in it is the sequence of its lines.                 *)
(***************************************************************************)
\* str(x), as an f-string or print renders a value
Str(x) ==
    CASE x.t = "none" -> "None"
      [] x.t = "int" -> ToString(x.v)
      [] OTHER -> x.v

\* hasattr(o, a)
HasAttr(o, a) == o.t = "obj" /\ a \in DOMAIN o.v
\* isinstance(x, dict), isinstance(x, list), isinstance(x, str)
IsDict(x) == x.t = "dict"
IsList(x) == x.t = "list"
IsStr(x) == x.t = "str"
\* d.get(k, default)
Get(d, k, default) == IF k \in DOMAIN d.v THEN d.v[k] ELSE default
\* getattr(o, a, default)
GetAttr(o, a, default) == IF HasAttr(o, a) THEN o.v[a] ELSE default

Started == [out |-> <<>>, raised |-> ""]
\* print(...), unless the call has already ended
Emit(st, lines) == IF st.raised # "" THEN st ELSE [st EXCEPT !.out = @ \o lines]
\* an uncaught exception ends the call
Raise(st, err) == IF st.raised # "" THEN st ELSE [st EXCEPT !.raised = err]

\* '=' * 60
Rule == "============================================================"
ReasoningHeading == "--- Reasoning Summary ---"
NoSummaryHeading == "--- Reasoning (no summary returned) ---"
AnswerHeading == "--- Answer ---"
UsageHeading == "--- Token Usage ---"
FinalUsageHeading == "--- Token Usage (final message) ---"
NoMessagesLine == "  (no messages returned)"
NA == PyStr("N/A")

\* the three prints that open every formatter
Header(label) == <<"", Rule, "  " \o label, Rule>>

(***************************************************************************)
(* vanila_example.py: print_response                                       *)
(***************************************************************************)
\* a faulty variant: the summary parts are printed last to first
RECURSIVE VanilaSummaryReversed(_, _)
VanilaSummaryReversed(st, parts) ==
    IF parts = <<>> THEN st
    ELSE LET part == parts[Len(parts)] IN
         VanilaSummaryReversed(
            IF HasAttr(part, "text") THEN Emit(st, <<Str(part.v.text)>>) ELSE st,
            SubSeq(parts, 1, Len(parts) - 1))

\* for part in item.summary
RECURSIVE VanilaSummary(_, _)
VanilaSummary(st, parts) ==
    IF parts = <<>> THEN st
    ELSE LET part == Head(parts) IN
         VanilaSummary(
            IF HasAttr(part, "text") THEN Emit(st, <<Str(part.v.text)>>) ELSE st,
            Tail(parts))

\* for content_part in item.content
RECURSIVE VanilaContent(_, _)
VanilaContent(st, parts) ==
    IF parts = <<>> THEN st
    ELSE LET content_part == Head(parts) IN
         VanilaContent(
            IF HasAttr(content_part, "text")
            THEN Emit(st, <<"", AnswerHeading, Str(content_part.v.text)>>)
            ELSE st,
            Tail(parts))

\* the body of `for item in response.output`
VanilaItem(st, item) ==
    IF ~HasAttr(item, "type") THEN Raise(st, "AttributeError")
    ELSE IF item.v.type = PyStr("reasoning") THEN
        IF HasAttr(item, "summary") /\ Truthy(item.v.summary)
        THEN VanilaSummary(Emit(st, <<"", ReasoningHeading>>), item.v.summary.v)
        ELSE Emit(st, <<"", NoSummaryHeading>>)
    ELSE IF item.v.type = PyStr("message") THEN
        IF ~HasAttr(item, "content") THEN Raise(st, "AttributeError")
        ELSE IF ~IsList(item.v.content) THEN Raise(st, "TypeError")
        ELSE VanilaContent(st, item.v.content.v)
    ELSE st

RECURSIVE VanilaItems(_, _)
VanilaItems(st, items) ==
    IF items = <<>> \/ st.raised # "" THEN st
    ELSE VanilaItems(VanilaItem(st, Head(items)), Tail(items))

\* print(f"  <name> {usage.<field>}")
VanilaField(st, usage, name, field) ==
    IF HasAttr(usage, field) THEN Emit(st, <<name \o Str(usage.v[field])>>)
    ELSE Raise(st, "AttributeError")

\* the token usage breakdown
VanilaUsage(st, usage) ==
    LET s1 == Emit(st, <<"", UsageHeading>>)
        s2 == VanilaField(s1, usage, "  Input tokens:     ", "input_tokens")
        s3 == VanilaField(s2, usage, "  Output tokens:    ", "output_tokens")
        s4 == IF HasAttr(usage, "output_tokens_details") /\ Truthy(usage.v.output_tokens_details)
              THEN Emit(s3, <<"  Reasoning tokens: "
                              \o Str(GetAttr(usage.v.output_tokens_details, "reasoning_tokens", PyInt(0)))>>)
              ELSE s3
        s5 == VanilaField(s4, usage, "  Total tokens:     ", "total_tokens")
    IN Emit(s5, <<"">>)

vanila_print_response(label, resp) ==
    VanilaUsage(VanilaItems(Emit(Started, Header(label)), resp.v.output.v), resp.v.usage)

(***************************************************************************)
(* langchain_example.py: print_response                                    *)
(***************************************************************************)
\* for summary_part in block.get("summary", [])
RECURSIVE BlockSummary(_, _)
BlockSummary(st, parts) ==
    IF parts = <<>> \/ st.raised # "" THEN st
    ELSE LET summary_part == Head(parts) IN
         IF ~IsDict(summary_part) THEN Raise(st, "AttributeError")
         ELSE LET text == Get(summary_part, "text", PyStr("")) IN
              BlockSummary(
                IF Truthy(text) THEN Emit(st, <<"", ReasoningHeading, Str(text)>>) ELSE st,
                Tail(parts))

\* the body of `for block in response.content`
Block(st, block) ==
    IF ~IsDict(block) THEN st
    ELSE IF Get(block, "type", None) = PyStr("reasoning") THEN
        LET summary == Get(block, "summary", PyList(<<>>)) IN
        IF ~IsList(summary) THEN Raise(st, "TypeError")
        ELSE BlockSummary(st, summary.v)
    ELSE IF Get(block, "type", None) = PyStr("text") THEN
        Emit(st, <<"", AnswerHeading, Str(Get(block, "text", PyStr("")))>>)
    ELSE st

RECURSIVE Blocks(_, _)
Blocks(st, blocks) ==
    IF blocks = <<>> \/ st.raised # "" THEN st
    ELSE Blocks(Block(st, Head(blocks)), Tail(blocks))

\* a faulty variant: an empty list of blocks is reported
ContentWithPlaceholder(st, content) ==
    IF IsList(content) THEN
        IF content.v = <<>> THEN Emit(st, <<"", "(no content)">>) ELSE Blocks(st, content.v)
    ELSE IF IsStr(content) /\ Truthy(content) THEN Emit(st, <<"", AnswerHeading, content.v>>)
    ELSE st

\* a faulty variant: the plain string is printed whether or not it is empty
ContentAnyString(st, content) ==
    IF IsList(content) THEN Blocks(st, content.v)
    ELSE IF IsStr(content) THEN Emit(st, <<"", AnswerHeading, content.v>>)
    ELSE st

\* the dispatch on the type of the content, the same in both LangChain scripts
Content(st, content) ==
    IF IsList(content) THEN Blocks(st, content.v)
    ELSE IF IsStr(content) /\ Truthy(content) THEN Emit(st, <<"", AnswerHeading, content.v>>)
    ELSE st

\* the usage lines of both LangChain scripts, under the heading of each
MetadataUsage(st, usage, heading) ==
    IF ~Truthy(usage) THEN st
    ELSE
        LET details == Get(usage, "output_token_details", PyDict(NoFields))
            s1 == Emit(st, <<"", heading>>)
            s2 == Emit(s1, <<"  Input tokens:     " \o Str(Get(usage, "input_tokens", NA))>>)
            s3 == Emit(s2, <<"  Output tokens:    " \o Str(Get(usage, "output_tokens", NA))>>)
            s4 == IF Truthy(details) /\ Get(details, "reasoning", None) # None
                  THEN Emit(s3, <<"  Reasoning tokens: " \o Str(details.v.reasoning)>>)
                  ELSE s3
        IN Emit(s4, <<"  Total tokens:     " \o Str(Get(usage, "total_tokens", NA))>>)

langchain_print_response(label, resp) ==
    Emit(MetadataUsage(Content(Emit(Started, Header(label)), resp.v.content),
                       resp.v.usage_metadata, UsageHeading),
         <<"">>)

(***************************************************************************)
(* deepagent_example.py: print_result                                      *)
(***************************************************************************)
TruncLen == 120

\* s[:120]
Truncated(s) == IF Len(s) <= TruncLen THEN s ELSE SubSeq(s, 1, TruncLen)

\* [m for m in messages if getattr(m, "type", "") == "tool"]
ToolMessages(messages) ==
    SelectSeq(messages, LAMBDA m : GetAttr(m, "type", PyStr("")) = PyStr("tool"))

\* for tm in tool_messages
RECURSIVE ToolLines(_)
ToolLines(tms) ==
    IF tms = <<>> THEN <<>>
    ELSE <<"  [" \o Str(Head(tms).v.name) \o "] -> " \o Truncated(Head(tms).v.content.v)>>
         \o ToolLines(Tail(tms))

\* the tool calls made during the conversation
ToolsUsed(st, messages) ==
    LET tool_messages == ToolMessages(messages) IN
    IF tool_messages = <<>> THEN st
    ELSE Emit(st, <<"", "--- Tools Used (" \o ToString(Len(tool_messages)) \o " call(s)) ---">>
                  \o ToolLines(tool_messages))

\* a faulty variant: the first message is taken for the agent's final answer
print_result_of_first(label, result) ==
    LET messages == Get(result, "messages", PyList(<<>>)) IN
    IF ~Truthy(messages) THEN Emit(Emit(Started, Header(label)), <<NoMessagesLine>>)
    ELSE
        LET final_msg == messages.v[1]
            s1 == Content(Emit(Started, Header(label)), final_msg.v.content)
            s2 == MetadataUsage(s1, GetAttr(final_msg, "usage_metadata", None), FinalUsageHeading)
        IN Emit(ToolsUsed(s2, messages.v), <<"">>)

deepagent_print_result(label, result) ==
    LET messages == Get(result, "messages", PyList(<<>>)) IN
    IF ~Truthy(messages) THEN Emit(Emit(Started, Header(label)), <<NoMessagesLine>>)
    ELSE
        LET final_msg == messages.v[Len(messages.v)]
            s1 == Content(Emit(Started, Header(label)), final_msg.v.content)
            s2 == MetadataUsage(s1, GetAttr(final_msg, "usage_metadata", None), FinalUsageHeading)
        IN Emit(ToolsUsed(s2, messages.v), <<"">>)

(***************************************************************************)
(* Spec: one execution of a script                                         *)
(***************************************************************************)
Event(name, ev) == [example |-> name, ev |-> ev]

RECURSIVE Events(_, _)
Events(name, evs) ==
    IF evs = <<>> THEN <<>> ELSE <<Event(name, Head(evs))>> \o Events(name, Tail(evs))

\* the formatter is not called in Spec
NoResponse == None

Init ==
    /\ script \in Scripts
    /\ AZURE_OPENAI_ENDPOINT \in EnvEndpoints
    /\ AZURE_OPENAI_API_KEY \in EnvKeys
    /\ pc = "start"
    /\ exit_status = -1
    /\ stderr = ""
    /\ client = None
    /\ requests = 0
    /\ ex = 0
    /\ trace = <<>>
    /\ stdout = <<>>
    /\ response = NoResponse
    /\ out = <<>>
    /\ raised = ""

\* raise SystemExit(message): the message goes to stderr, the exit status is 1
ConfigFail ==
    /\ pc = "start"
    /\ ConfigMissing
    /\ pc' = "exited"
    /\ exit_status' = 1
    /\ stderr' = ConfigMessage
    /\ UNCHANGED <<script, AZURE_OPENAI_ENDPOINT, AZURE_OPENAI_API_KEY, client, requests,
                   ex, trace, stdout, fmtvars>>

\* the configuration is complete: the base URL is computed and the client constructed
BuildClient ==
    /\ pc = "start"
    /\ ~ConfigMissing
    /\ client' = PyObj([api_key |-> AZURE_OPENAI_API_KEY,
                        base_url |-> base_url(script, AZURE_OPENAI_ENDPOINT.v)])
    /\ pc' = "main"
    /\ UNCHANGED <<script, AZURE_OPENAI_ENDPOINT, AZURE_OPENAI_API_KEY, exit_status, stderr,
                   requests, ex, trace, stdout, fmtvars>>

\* the first two statements of the __main__ block
PrintBanner ==
    /\ pc = "main"
    /\ stdout' = stdout \o <<Banner(script), "============">>
    /\ ex' = 1
    /\ pc' = "call"
    /\ UNCHANGED <<script, AZURE_OPENAI_ENDPOINT, AZURE_OPENAI_API_KEY, exit_status, stderr,
                   client, requests, trace, fmtvars>>

\* the next call of the __main__ block names a function the module defines
CallExample ==
    /\ pc = "call"
    /\ ex <= Len(MainCalls(script))
    /\ MainCalls(script)[ex] \in Defined(script)
    /\ trace' = Append(trace, Event(MainCalls(script)[ex], "begin"))
    /\ pc' = "request"
    /\ UNCHANGED <<script, AZURE_OPENAI_ENDPOINT, AZURE_OPENAI_API_KEY, exit_status, stderr,
                   client, requests, ex, stdout, fmtvars>>

\* the next call names a function that is not defined: NameError, uncaught
CallUndefined ==
    /\ pc = "call"
    /\ ex <= Len(MainCalls(script))
    /\ MainCalls(script)[ex] \notin Defined(script)
    /\ stderr' = "NameError"
    /\ exit_status' = 1
    /\ pc' = "exited"
    /\ UNCHANGED <<script, AZURE_OPENAI_ENDPOINT, AZURE_OPENAI_API_KEY, client, requests,
                   ex, trace, stdout, fmtvars>>

\* client.responses.create / llm.invoke / agent.invoke returns a response
Request ==
    /\ pc = "request"
    /\ requests' = requests + 1
    /\ trace' = Append(trace, Event(MainCalls(script)[ex], "request"))
    /\ pc' = "present"
    /\ UNCHANGED <<script, AZURE_OPENAI_ENDPOINT, AZURE_OPENAI_API_KEY, exit_status, stderr,
                   client, ex, stdout, fmtvars>>

\* the request raises (network, authentication): nothing catches it
RequestFails ==
    /\ pc = "request"
    /\ requests' = requests + 1
    /\ stderr' = "RequestError"
    /\ exit_status' = 1
    /\ pc' = "exited"
    /\ UNCHANGED <<script, AZURE_OPENAI_ENDPOINT, AZURE_OPENAI_API_KEY, client, ex, trace,
                   stdout, fmtvars>>

\* the rest of the example function: the response is printed and the function returns
Present ==
    /\ pc = "present"
    /\ trace' = trace \o Events(MainCalls(script)[ex], Presents(MainCalls(script)[ex]))
                      \o <<Event(MainCalls(script)[ex], "end")>>
    /\ ex' = ex + 1
    /\ pc' = "call"
    /\ UNCHANGED <<script, AZURE_OPENAI_ENDPOINT, AZURE_OPENAI_API_KEY, exit_status, stderr,
                   client, requests, stdout, fmtvars>>

\* print("\nDone.") and the end of the script
Done ==
    /\ pc = "call"
    /\ ex > Len(MainCalls(script))
    /\ stdout' = stdout \o <<"", "Done.">>
    /\ exit_status' = 0
    /\ pc' = "exited"
    /\ UNCHANGED <<script, AZURE_OPENAI_ENDPOINT, AZURE_OPENAI_API_KEY, stderr, client,
                   requests, ex, trace, fmtvars>>

Next ==
    \/ ConfigFail
    \/ BuildClient
    \/ PrintBanner
    \/ CallExample
    \/ CallUndefined
    \/ Request
    \/ RequestFails
    \/ Present
    \/ Done

Spec == Init /\ [][Next]_vars

(***************************************************************************)
(* Properties of Spec                                                      *)
(***************************************************************************)
\* an environment value that is unset or empty
Missing(x) == x = None \/ x = PyStr(<<>>)

\* C1: in every script, when AZURE_OPENAI_ENDPOINT or AZURE_OPENAI_API_KEY is
\* unset or empty, the only step the process takes is to exit with a non-zero
\* status and the diagnostic message: no client is constructed, no request is
\* sent and no example function runs.
C1_MissingConfigExits ==
    (Missing(AZURE_OPENAI_ENDPOINT) \/ Missing(AZURE_OPENAI_API_KEY)) =>
        /\ pc \in {"start", "exited"}
        /\ client = None
        /\ requests = 0
        /\ trace = <<>>
        /\ stdout = <<>>
        /\ pc = "exited" => (exit_status # 0 /\ stderr = ConfigMessage)

C1_Witness ==
    /\ pc = "exited"
    /\ AZURE_OPENAI_API_KEY = None
    /\ AZURE_OPENAI_ENDPOINT = PyStr(ExampleEndpoint)
    /\ exit_status = 1
    /\ stderr = ConfigMessage

\* the events of an example that runs to completion with one request and one formatter call
RECURSIVE FullTrace(_)
FullTrace(calls) ==
    IF calls = <<>> THEN <<>>
    ELSE Events(Head(calls), <<"begin", "request", "format", "end">>) \o FullTrace(Tail(calls))

\* C2: once the configuration has succeeded and no request fails, every script
\* ends having run all the examples of its __main__ block in program order, each
\* with one request and one formatter call and each finished before the next
\* begins, then prints "Done." and exits with status zero.
C2_AllExamplesThenDone ==
    (pc = "exited" /\ client # None /\ stderr # "RequestError") =>
        /\ exit_status = 0
        /\ trace = FullTrace(MainCalls(script))
        /\ Len(stdout) >= 1 /\ stdout[Len(stdout)] = "Done."

\* the length of the part of e that precedes the first occurrence of the marker
\* (the whole of e when the marker does not occur)
PrefixLen(e) ==
    CHOOSE k \in 0..Len(e) :
        /\ \A j \in 1..k : ~OccursAt(e, Marker, j)
        /\ OccursAt(e, Marker, k + 1) \/ k = Len(e)

\* u is the first k characters of e without their trailing slashes, then the suffix
Normalized(e, k, u) ==
    \E j \in 0..k :
        /\ u = SubSeq(e, 1, j) \o Suffix
        /\ j = 0 \/ e[j] # "/"
        /\ \A i \in (j + 1)..k : e[i] = "/"

\* C3: in every script the base URL the client is built with is the part of the
\* endpoint before the first "/api/projects/" (the whole endpoint when the marker
\* does not occur), without its trailing slashes, followed by "/openai/v1/"; the
\* value does not depend on the script, and the endpoint
\* "https://r.services.ai.azure.com/api/projects/p1" gives
\* "https://r.services.ai.azure.com/openai/v1/".
C3_BaseUrl ==
    client # None =>
        LET e == AZURE_OPENAI_ENDPOINT.v IN
        /\ Normalized(e, PrefixLen(e), client.v.base_url)
        /\ \A s \in Scripts : base_url(s, e) = client.v.base_url
        /\ e = ExampleEndpoint => client.v.base_url = ExampleBaseUrl

\* a project-scoped endpoint with a second marker and slashes before the first one
C3_Witness ==
    /\ client # None
    /\ AZURE_OPENAI_ENDPOINT.v = <<"/", "/">> \o Marker \o <<"p">> \o Marker
    /\ client.v.base_url = Suffix

(***************************************************************************)
(* Bounded responses                                                       *)
(*                                                                         *)
(* A response is drawn as a shape, a tuple of short tags, and built from   *)
(* it: <<"reasoning", "text", "empty">> is a reasoning element whose first *)
(* fragment has the text "s1" and whose second has an empty text.          *)
(***************************************************************************)
\* the most items or blocks of a response
MaxItems == 2
\* the most summary fragments and content parts of a response, all elements together
MaxParts == 3

\* a part of the items shape is an object, a part of the blocks shape is a dict
Part(shape, fields) == IF shape = "items" THEN PyObj(fields) ELSE PyDict(fields)

\* the i-th summary fragment: without a text, with an empty text, or with the text "s<i>"
SummaryPart(shape, i, kind) ==
    CASE kind = "missing" -> Part(shape, NoFields)
      [] kind = "empty" -> Part(shape, [text |-> PyStr("")])
      [] OTHER -> Part(shape, [text |-> PyStr("s" \o ToString(i))])

\* the i-th content part of a message: without a text, or with the text "a<i>"
ContentPart(i, kind) ==
    IF kind = "missing" THEN PyObj(NoFields) ELSE PyObj([text |-> PyStr("a" \o ToString(i))])

\* the parts that the tags after the first of an element shape describe
Summary(shape, e) == PyList([i \in 1..(Len(e) - 1) |-> SummaryPart(shape, i, e[i + 1])])
MessageContent(e) == PyList([i \in 1..(Len(e) - 1) |-> ContentPart(i, e[i + 1])])

\* an output item of the Responses API
Item(e) ==
    CASE e[1] = "reasoning" -> PyObj([type |-> PyStr("reasoning"), summary |-> Summary("items", e)])
      [] e[1] = "message" -> PyObj([type |-> PyStr("message"), content |-> MessageContent(e)])
      [] e[1] = "reasoning_no_summary" -> PyObj([type |-> PyStr("reasoning")])
      [] e[1] = "reasoning_null_summary" -> PyObj([type |-> PyStr("reasoning"), summary |-> None])
      [] e[1] = "function_call" -> PyObj([type |-> PyStr("function_call")])
      [] OTHER -> PyObj(NoFields)

\* a content block of an AIMessage
ContentBlock(e) ==
    CASE e[1] = "reasoning" -> PyDict([type |-> PyStr("reasoning"), summary |-> Summary("blocks", e)])
      [] e[1] = "reasoning_no_summary" -> PyDict([type |-> PyStr("reasoning")])
      [] e[1] = "text" -> PyDict([type |-> PyStr("text"), text |-> PyStr("a1")])
      [] e[1] = "text_no_text" -> PyDict([type |-> PyStr("text")])
      [] e[1] = "function_call" -> PyDict([type |-> PyStr("function_call")])
      [] e[1] = "string" -> PyStr("a1")
      [] OTHER -> PyDict(NoFields)

\* the element shapes with k parts
ElementShapes(shape, k) ==
    {<<"reasoning">> \o f : f \in [1..k -> {"missing", "empty", "text"}]}
    \cup (IF shape = "items" THEN {<<"message">> \o f : f \in [1..k -> {"missing", "text"}]} ELSE {})
    \cup (IF k # 0 THEN {}
          ELSE IF shape = "items"
          THEN {<<"reasoning_no_summary">>, <<"reasoning_null_summary">>, <<"function_call">>,
                <<"untyped">>}
          ELSE {<<"reasoning_no_summary">>, <<"text">>, <<"text_no_text">>, <<"function_call">>,
                <<"string">>, <<"untyped">>})

\* the sequences of at most n element shapes with at most b parts together
RECURSIVE ElementSeqs(_, _, _)
ElementSeqs(shape, n, b) ==
    {<<>>} \cup
    IF n = 0 THEN {}
    ELSE UNION {{<<e>> \o t : e \in ElementShapes(shape, k), t \in ElementSeqs(shape, n - 1, b - k)} :
                k \in 0..b}

\* response.output
Output(es) == PyList([i \in 1..Len(es) |-> Item(es[i])])

\* the content of an AIMessage: a list of blocks or a plain string
ContentOf(c) ==
    IF c[1] = "str" THEN PyStr(c[2]) ELSE PyList([i \in 1..Len(c[2]) |-> ContentBlock(c[2][i])])

ContentShapes(n, b) ==
    {<<"list", es>> : es \in ElementSeqs("blocks", n, b)} \cup {<<"str", "">>, <<"str", "Hello">>}

\* r extended with the field k
With(r, k, x) == [f \in DOMAIN r \cup {k} |-> IF f = k THEN x ELSE r[f]]

CounterNames == {"input_tokens", "output_tokens", "total_tokens"}
DetailKinds == {"absent", "null", "empty", "null_reasoning", "zero", "value"}

\* no usage at all, or some of the counters and some kind of details
UsageShapes == {<<"none">>} \cup {<<"usage", F, d>> : F \in SUBSET CounterNames, d \in DetailKinds}
UsualUsage == <<"usage", CounterNames, "value">>

\* the value of a counter: 11, 12 and 23
Counter(f) ==
    CASE f = "input_tokens" -> PyInt(11) [] f = "output_tokens" -> PyInt(12) [] OTHER -> PyInt(23)

\* usage.output_tokens_details / usage_metadata["output_token_details"]
Details(shape, d, field) ==
    CASE d = "null" -> None
      [] d = "empty" -> Part(shape, NoFields)
      [] d = "null_reasoning" -> Part(shape, [f \in {field} |-> None])
      [] d = "zero" -> Part(shape, [f \in {field} |-> PyInt(0)])
      [] OTHER -> Part(shape, [f \in {field} |-> PyInt(42)])

\* response.usage of the Responses API, usage_metadata of an AIMessage
Usage(shape, u) ==
    IF u[1] = "none" THEN None
    ELSE LET counters == [f \in u[2] |-> Counter(f)]
             detailsKey == IF shape = "items" THEN "output_tokens_details" ELSE "output_token_details"
             field == IF shape = "items" THEN "reasoning_tokens" ELSE "reasoning"
         IN Part(shape, IF u[3] = "absent" THEN counters
                        ELSE With(counters, detailsKey, Details(shape, u[3], field)))

\* every content with the usual usage, and every usage with a short content
ItemsShapes ==
    {<<es, UsualUsage>> : es \in ElementSeqs("items", MaxItems, MaxParts)}
    \cup {<<es, u>> : es \in ElementSeqs("items", 1, 1), u \in UsageShapes}

ItemsResponse(r) == PyObj([output |-> Output(r[1]), usage |-> Usage("items", r[2])])

MessageShapes ==
    {<<c, UsualUsage>> : c \in ContentShapes(MaxItems, MaxParts)}
    \cup {<<c, u>> : c \in ContentShapes(1, 1), u \in UsageShapes}

AIMessage(r) ==
    PyObj([type |-> PyStr("ai"), content |-> ContentOf(r[1]), usage_metadata |-> Usage("blocks", r[2])])

HumanMessage == PyObj([type |-> PyStr("human"), content |-> PyStr("question")])
ToolMessage(name, content) ==
    PyObj([type |-> PyStr("tool"), name |-> PyStr(name), content |-> PyStr(content)])
\* a tool result of 130 characters
LongContent ==
    "0123456789012345678901234567890123456789012345678901234567890123456789"
    \o "012345678901234567890123456789012345678901234567890123456789"

\* an assistant turn before the final one, with a content and a usage of its own
EarlierMessage ==
    PyObj([type |-> PyStr("ai"), content |-> PyStr("earlier"),
           usage_metadata |-> PyDict([input_tokens |-> PyInt(1), output_tokens |-> PyInt(2),
                                      total_tokens |-> PyInt(3)])])

\* the messages that precede the final one
Conversations ==
    <<<<>>,
      <<HumanMessage>>,
      <<HumanMessage, AIMessage(<<<<"str", "">>, UsualUsage>>),
        ToolMessage("calculate", "Result: 200")>>,
      <<HumanMessage, AIMessage(<<<<"str", "Hello">>, UsualUsage>>),
        ToolMessage("calculate", LongContent),
        AIMessage(<<<<"list", <<<<"reasoning", "text">>, <<"text">>>>>>, UsualUsage>>),
        ToolMessage("count_characters", "Result: 3")>>,
      <<HumanMessage, EarlierMessage, ToolMessage("calculate", "Result: 200"), EarlierMessage>>>>

\* a result without messages, a conversation alone, or a conversation and a final message
ResultShapes ==
    {<<"no_key">>}
    \cup {<<"messages", c>> : c \in DOMAIN Conversations}
    \cup {<<"messages", 2, m>> : m \in MessageShapes}
    \cup {<<"messages", c, <<x, UsualUsage>>>> : c \in DOMAIN Conversations, x \in ContentShapes(1, 1)}

AgentResult(r) ==
    CASE r[1] = "no_key" -> PyDict(NoFields)
      [] Len(r) = 2 -> PyDict([messages |-> PyList(Conversations[r[2]])])
      [] OTHER -> PyDict([messages |-> PyList(Conversations[r[2]] \o <<AIMessage(r[3])>>)])

ResponseShapes(s) ==
    CASE s = "vanila" -> ItemsShapes
      [] s = "langchain" -> MessageShapes
      [] OTHER -> ResultShapes

Response(s, r) ==
    CASE s = "vanila" -> ItemsResponse(r)
      [] s = "langchain" -> AIMessage(r)
      [] OTHER -> AgentResult(r)

Label(s) ==
    IF s = "deepagent" THEN "Example 1 - Math + Tool Use (Deep Agent)"
    ELSE "Example 1 - Math Problem (reasoning + summary)"

(***************************************************************************)
(* SpecFmt: the formatter call of the first example                        *)
(***************************************************************************)
InitFmt ==
    /\ script \in Scripts
    /\ AZURE_OPENAI_ENDPOINT = PyStr(ExampleEndpoint)
    /\ AZURE_OPENAI_API_KEY = PyStr(<<"k">>)
    /\ pc = "format_call"
    /\ exit_status = -1
    /\ stderr = ""
    /\ client = PyObj([api_key |-> AZURE_OPENAI_API_KEY,
                       base_url |-> base_url(script, AZURE_OPENAI_ENDPOINT.v)])
    /\ requests = 1
    /\ ex = 1
    /\ trace = Events(MainCalls(script)[1], <<"begin", "request">>)
    /\ stdout = <<Banner(script), "============">>
    /\ \E r \in ResponseShapes(script) : response = Response(script, r)
    /\ out = <<>>
    /\ raised = ""

Returns(st) ==
    /\ out' = st.out
    /\ raised' = st.raised
    /\ pc' = "format_return"
    /\ UNCHANGED <<script, AZURE_OPENAI_ENDPOINT, AZURE_OPENAI_API_KEY, exit_status, stderr,
                   client, requests, ex, trace, stdout, response>>

VanilaPrintResponse ==
    /\ pc = "format_call"
    /\ script = "vanila"
    /\ Returns(vanila_print_response(Label(script), response))

LangchainPrintResponse ==
    /\ pc = "format_call"
    /\ script = "langchain"
    /\ Returns(langchain_print_response(Label(script), response))

DeepagentPrintResult ==
    /\ pc = "format_call"
    /\ script = "deepagent"
    /\ Returns(deepagent_print_result(Label(script), response))

NextFmt ==
    \/ VanilaPrintResponse
    \/ LangchainPrintResponse
    \/ DeepagentPrintResult

SpecFmt == InitFmt /\ [][NextFmt]_vars

(***************************************************************************)
(* Properties of SpecFmt                                                   *)
(***************************************************************************)
Returned == pc = "format_return"

\* the formatter of script s applied to resp
Formatted(s, resp) ==
    CASE s = "vanila" -> vanila_print_response(Label(s), resp)
      [] s = "langchain" -> langchain_print_response(Label(s), resp)
      [] OTHER -> deepagent_print_result(Label(s), resp)

\* sub occurs in seq as a run of consecutive lines
Occurs(seq, sub) ==
    \E i \in 1..(Len(seq) - Len(sub) + 1) : SubSeq(seq, i, i + Len(sub) - 1) = sub
\* the positions of seq that hold a line of the set L
Positions(seq, L) == {i \in 1..Len(seq) : seq[i] \in L}

\* the messages of an agent result, and whether there is a last one
Messages(resp) == Get(resp, "messages", PyList(<<>>)).v
HasFinal(resp) == Messages(resp) # <<>>
FinalMessage(resp) == Messages(resp)[Len(Messages(resp))]

\* the response has a content (every response but an agent result without messages)
HasContent(s, resp) == s = "deepagent" => HasFinal(resp)
\* response.output, response.content, final_msg.content
ContentValue(s, resp) ==
    CASE s = "vanila" -> resp.v.output
      [] s = "langchain" -> resp.v.content
      [] OTHER -> FinalMessage(resp).v.content
\* the content is a sequence of items or blocks
HasElements(s, resp) == HasContent(s, resp) /\ IsList(ContentValue(s, resp))
Elements(s, resp) == ContentValue(s, resp).v

\* resp with the elements els in place of its own
WithElements(s, resp, els) ==
    CASE s = "vanila" -> PyObj([resp.v EXCEPT !.output = PyList(els)])
      [] s = "langchain" -> PyObj([resp.v EXCEPT !.content = PyList(els)])
      [] OTHER ->
            PyDict([messages |-> PyList(
                [Messages(resp) EXCEPT ![Len(Messages(resp))] =
                    PyObj([FinalMessage(resp).v EXCEPT !.content = PyList(els)])])])

\* response.usage, response.usage_metadata, final_msg.usage_metadata
UsageRecord(s, resp) ==
    CASE s = "vanila" -> resp.v.usage
      [] s = "langchain" -> resp.v.usage_metadata
      [] OTHER -> IF HasFinal(resp) THEN GetAttr(FinalMessage(resp), "usage_metadata", None) ELSE None

\* the field f of the object or dict x, None when x has no such field
Field(x, f) == IF x.t \in {"obj", "dict"} /\ f \in DOMAIN x.v THEN x.v[f] ELSE None

\* the reasoning-token count of the usage record, None when absent or null
ReasoningTokens(s, resp) ==
    IF s = "vanila"
    THEN Field(Field(UsageRecord(s, resp), "output_tokens_details"), "reasoning_tokens")
    ELSE Field(Field(UsageRecord(s, resp), "output_token_details"), "reasoning")

InputLine(x) == "  Input tokens:     " \o Str(x)
OutputLine(x) == "  Output tokens:    " \o Str(x)
ReasoningLine(x) == "  Reasoning tokens: " \o Str(x)
TotalLine(x) == "  Total tokens:     " \o Str(x)
\* what a token line can show
Shown == {None, NA, PyInt(0), PyInt(11), PyInt(12), PyInt(23), PyInt(42)}
ReasoningLines == {ReasoningLine(x) : x \in Shown}
OutputLines == {OutputLine(x) : x \in Shown}
TotalLines == {TotalLine(x) : x \in Shown}
ToolsHeadings == {"--- Tools Used (" \o ToString(n) \o " call(s)) ---" : n \in 1..4}
SectionHeadings == {UsageHeading, FinalUsageHeading} \cup ToolsHeadings

\* the items of a well-formed response: a reasoning item whose parts all have a text,
\* then a message with one part that has a text
ReasoningThenMessage(items) ==
    /\ Len(items) = 2
    /\ HasAttr(items[1], "type") /\ items[1].v.type = PyStr("reasoning")
    /\ HasAttr(items[1], "summary") /\ IsList(items[1].v.summary)
    /\ \A i \in 1..Len(items[1].v.summary.v) : HasAttr(items[1].v.summary.v[i], "text")
    /\ HasAttr(items[2], "type") /\ items[2].v.type = PyStr("message")
    /\ Len(items[2].v.content.v) = 1
    /\ HasAttr(items[2].v.content.v[1], "text")

\* the texts of the parts of a summary, in their order
Texts(parts) == [i \in 1..Len(parts) |-> parts[i].v.text.v]

\* C4: print_response of vanila_example.py, given a reasoning item with N summary
\* parts followed by a message item with the text T, returns normally having
\* printed the N summary texts in their order and, right after them, the Answer
\* section that holds T.
C4_SummaryThenAnswer ==
    (Returned /\ script = "vanila" /\ ReasoningThenMessage(response.v.output.v)) =>
        LET items == response.v.output.v IN
        /\ raised = ""
        /\ Occurs(out, Texts(items[1].v.summary.v)
                       \o <<"", AnswerHeading, items[2].v.content.v[1].v.text.v>>)

C4_Witness ==
    /\ Returned
    /\ script = "vanila"
    /\ ReasoningThenMessage(response.v.output.v)
    /\ Texts(response.v.output.v[1].v.summary.v) = <<"s1", "s2">>
    /\ Occurs(out, <<"", ReasoningHeading, "s1", "s2", "", AnswerHeading, "a1">>)

\* C5: in every formatter that returns normally, when the reasoning-token field
\* of the usage record is absent or null no reasoning-token line is printed; when
\* it has the value v, exactly one line "Reasoning tokens: v" is printed, right
\* after the output-token line and right before the total-token line.
C5_ReasoningTokenLine ==
    (Returned /\ raised = "") =>
        LET rt == ReasoningTokens(script, response)
            at == Positions(out, ReasoningLines)
        IN IF rt = None THEN at = {}
           ELSE \E i \in 2..(Len(out) - 1) :
                    /\ at = {i}
                    /\ out[i] = ReasoningLine(rt)
                    /\ out[i - 1] \in OutputLines
                    /\ out[i + 1] \in TotalLines

\* the block/item sequence is empty (for an agent result also: the message list is)
EmptySequence(s, resp) ==
    \/ HasElements(s, resp) /\ Elements(s, resp) = <<>>
    \/ s = "deepagent" /\ ~HasFinal(resp)

\* nothing is printed between the label header and the usage or tools section
NoContentSection(o) ==
    /\ Len(o) >= 5
    /\ SubSeq(o, 1, 4) = Header(Label(script))
    /\ o[5] = ""
    /\ Len(o) > 5 => o[6] \in SectionHeadings

\* C6 as stated: given an empty block/item sequence, a formatter that runs to
\* its end has printed a placeholder where the content section would be.
C6_PlaceholderPrinted ==
    (Returned /\ raised = "" /\ EmptySequence(script, response)) => ~NoContentSection(out)

\* C6, amended: given an empty block/item sequence, the formatter prints neither
\* a placeholder nor a content section (the output goes from the label header to
\* the usage or tools section) and the iteration raises nothing; the only
\* placeholder is "(no messages returned)", which print_result prints in place
\* of everything else when the message list itself is empty.
C6_NoPlaceholder ==
    Returned =>
        /\ (HasElements(script, response) /\ Elements(script, response) = <<>>) =>
                /\ NoContentSection(out)
                /\ raised # "" => (Len(out) > 5 /\ out[6] = UsageHeading)
        /\ (script = "deepagent" /\ ~HasFinal(response)) =>
                /\ out = Header(Label(script)) \o <<NoMessagesLine>>
                /\ raised = ""
        /\ \A i \in 1..Len(out) : out[i] = NoMessagesLine => (script = "deepagent" /\ ~HasFinal(response))

C6_Witness ==
    /\ Returned
    /\ script = "langchain"
    /\ response.v.content = PyList(<<>>)
    /\ out = Header(Label(script))
             \o <<"", UsageHeading, InputLine(PyInt(11)), OutputLine(PyInt(12)),
                  ReasoningLine(PyInt(42)), TotalLine(PyInt(23)), "">>

\* the kind tag of an element, None when it has none
KindTag(el) == Field(el, "type")
Unknown(el) == KindTag(el) \notin {PyStr("reasoning"), PyStr("text"), PyStr("message")}

\* C7: in every formatter an element whose kind tag is absent or is none of
\* reasoning, text and message leaves no trace: when the response without these
\* elements is formatted without an error, so is the response with them, and the
\* output is the same.
C7_UnknownSkipped ==
    (Returned /\ HasElements(script, response)) =>
        LET known == SelectSeq(Elements(script, response), LAMBDA el : ~Unknown(el))
            alone == Formatted(script, WithElements(script, response, known))
        IN alone.raised = "" => (raised = "" /\ out = alone.out)

\* the counter f of the usage record u as the formatter is to show it
ShownCounter(u, f) == IF f \in DOMAIN u.v THEN u.v[f] ELSE NA

\* C8: in every formatter, for every usage record, the call returns normally and
\* prints the input, output and total lines in this order, each with the value
\* of its counter or, when the counter is absent, with the placeholder N/A.
C8_MissingCountersShown ==
    (Returned /\ UsageRecord(script, response) # None) =>
        LET u == UsageRecord(script, response) IN
        /\ raised = ""
        /\ \E i, j, k \in 1..Len(out) :
              /\ i < j /\ j < k
              /\ out[i] = InputLine(ShownCounter(u, "input_tokens"))
              /\ out[j] = OutputLine(ShownCounter(u, "output_tokens"))
              /\ out[k] = TotalLine(ShownCounter(u, "total_tokens"))

\* the content is one plain string
StringContent(s, resp) == s # "vanila" /\ HasContent(s, resp) /\ IsStr(ContentValue(s, resp))

\* C9 as stated: for a content that is a plain string, the output has exactly one
\* Answer section, the section holds the string, and there is no Reasoning
\* Summary section.
C9_StringAnswered ==
    (Returned /\ StringContent(script, response)) =>
        /\ Cardinality(Positions(out, {AnswerHeading})) = 1
        /\ Occurs(out, <<"", AnswerHeading, ContentValue(script, response).v>>)
        /\ Positions(out, {ReasoningHeading}) = {}

\* C9, amended: for a content that is a non-empty plain string, the output has
\* exactly one Answer section, the section holds the string, and there is no
\* Reasoning Summary section; for the empty string there is no Answer section
\* and no Reasoning Summary section.
C9_NonEmptyStringAnswered ==
    (Returned /\ StringContent(script, response)) =>
        LET content == ContentValue(script, response).v IN
        /\ raised = ""
        /\ Positions(out, {ReasoningHeading}) = {}
        /\ IF content = "" THEN Positions(out, {AnswerHeading}) = {}
           ELSE /\ Cardinality(Positions(out, {AnswerHeading})) = 1
                /\ Occurs(out, <<"", AnswerHeading, content>>)

C9_Witness ==
    /\ Returned
    /\ script = "deepagent"
    /\ StringContent(script, response)
    /\ ContentValue(script, response) = PyStr("Hello")
    /\ Occurs(out, <<"", AnswerHeading, "Hello">>)
    /\ Cardinality(Positions(out, {AnswerHeading})) = 1

\* the summary of a reasoning element, <<>> when it has no list of fragments
Fragments(el) ==
    IF KindTag(el) = PyStr("reasoning") /\ IsList(Field(el, "summary")) THEN Field(el, "summary").v
    ELSE <<>>
\* the fragment has a non-empty text
HasText(part) == Truthy(Field(part, "text"))

\* the non-empty fragment texts of the elements, in the order of the response
RECURSIVE FragmentTexts(_)
FragmentTexts(els) ==
    IF els = <<>> THEN <<>>
    ELSE LET kept == SelectSeq(Fragments(Head(els)), HasText) IN
         [i \in 1..Len(kept) |-> kept[i].v.text.v] \o FragmentTexts(Tail(els))

\* the texts a summary fragment of the bounded responses can have
SummaryTexts == {"s" \o ToString(i) : i \in 1..(MaxParts + 1)}

\* the headings of the content, usage and tools sections
Headings == {ReasoningHeading, NoSummaryHeading, AnswerHeading} \cup SectionHeadings

\* C10: in every formatter that returns normally the summary lines printed are
\* the non-empty texts of the fragments, in the order of the response, each
\* after a Reasoning Summary heading, and a fragment of empty or missing text
\* prints nothing: the only empty lines are the one before each heading, the
\* text of an empty answer and the last line.
C10_NonEmptyFragmentsInOrder ==
    (Returned /\ raised = "" /\ HasElements(script, response)) =>
        /\ SelectSeq(out, LAMBDA l : l \in SummaryTexts) = FragmentTexts(Elements(script, response))
        /\ \A i \in Positions(out, SummaryTexts) :
              \E j \in 1..(i - 1) :
                 /\ out[j] = ReasoningHeading
                 /\ \A k \in (j + 1)..(i - 1) : out[k] \in SummaryTexts
        /\ \A i \in Positions(out, {""}) :
              \/ i = Len(out)
              \/ out[i + 1] \in Headings \cup {Rule}
              \/ i > 1 /\ out[i - 1] = AnswerHeading

\* the message is of the tool type
IsTool(m) == Field(m, "type") = PyStr("tool")

\* the messages without the non-tool messages that precede the last one
RECURSIVE ToolsAndLast(_)
ToolsAndLast(ms) ==
    IF Len(ms) <= 1 THEN ms
    ELSE IF IsTool(Head(ms)) THEN <<Head(ms)>> \o ToolsAndLast(Tail(ms))
    ELSE ToolsAndLast(Tail(ms))

\* the agent result with the messages ms
ResultOf(ms) == PyDict([messages |-> PyList(ms)])

\* the line l begins with p
StartsWith(l, p) == Len(l) >= Len(p) /\ SubSeq(l, 1, Len(p)) = p

ToolsHeading(n) == "--- Tools Used (" \o ToString(n) \o " call(s)) ---"

\* what print_result would show of EarlierMessage
EarlierLines == {"earlier", InputLine(PyInt(1)), OutputLine(PyInt(2)), TotalLine(PyInt(3))}

\* C11: print_result depends only on the last message and the tool messages. Its
\* output is the output for the result without the earlier non-tool messages,
\* and the output for every other conversation with the same last message and
\* the same tool messages; nothing of an earlier non-tool message is printed;
\* the Tools Used heading counts the tool lines, one per tool message in the
\* order of the conversation, and is absent without tool messages; an empty
\* message list prints the label and "(no messages returned)" only.
C11_LastMessageAndTools ==
    (Returned /\ script = "deepagent") =>
        LET ms == Messages(response)
            tools == SelectSeq(ms, IsTool)
            at == Positions(out, ToolsHeadings)
        IN
        /\ raised = ""
        /\ ms = <<>> => out = Header(Label(script)) \o <<NoMessagesLine>>
        /\ ms # <<>> =>
            /\ out = Formatted(script, ResultOf(ToolsAndLast(ms))).out
            /\ \A c \in DOMAIN Conversations :
                  LET other == Conversations[c] \o <<ms[Len(ms)]>> IN
                  SelectSeq(other, IsTool) = tools => Formatted(script, ResultOf(other)).out = out
            /\ ms[Len(ms)] # EarlierMessage => Positions(out, EarlierLines) = {}
            /\ IF tools = <<>> THEN at = {}
               ELSE \E h \in 1..Len(out) :
                       /\ at = {h}
                       /\ out[h] = ToolsHeading(Len(tools))
                       /\ Len(out) = h + Len(tools) + 1
                       /\ out[Len(out)] = ""
                       /\ \A i \in 1..Len(tools) :
                             StartsWith(out[h + i], "  [" \o tools[i].v.name.v \o "] -> ")

\* a conversation with a human, two assistant and one tool message before the last
C11_Witness ==
    /\ Returned
    /\ script = "deepagent"
    /\ Messages(response) = Conversations[5] \o <<AIMessage(<<<<"str", "Hello">>, UsualUsage>>)>>
    /\ Occurs(out, <<"", AnswerHeading, "Hello", "", FinalUsageHeading, InputLine(PyInt(11))>>)
    /\ Occurs(out, <<"", ToolsHeading(1), "  [calculate] -> Result: 200", "">>)
    /\ raised = ""

====
